---- MODULE Spec2Model ----
(***************************************************************************)
(* JointToCartesianController (joint_to_cartesian_controller.cpp).         *)
(*                                                                         *)
(* The controller's init() validates the configuration, builds the         *)
(* kinematic chain and starts a detached adapter thread.  The adapter      *)
(* thread cycles read / controller-manager update / try_lock + write /     *)
(* sleep; the outer update() does try_lock + forward kinematics + publish. *)
(* Both share m_positions under m_mutex.                                   *)
(***************************************************************************)
EXTENDS Integers, Sequences, FiniteSets, TLC

\* ---------------------------------------------------------------- bounds
MaxUpdates == 2     \* update() calls made by the outer control loop
MaxCycles == 2      \* cycles of the adapter thread's while loop
MaxInits == 2       \* init() calls made on one controller instance

\* ------------------------------------------------ the parameter server,
\* the robot and the hardware the controller is started against
Opt(S) == {<<>>} \cup {<<s>> : s \in S}      \* absent, or present with a value

Descriptions == {"malformed", "untreeable", "robot"}
BaseLinks == {"world", "base_link", "no_such_link"}
TipLinks == {"tool0", "no_such_link"}
Topics == {"my_target"}
JointLists == {<<"joint1">>, <<"joint1", "joint2">>, <<"joint1", "no_such_joint">>}
HwJoints == {"joint1", "joint2"}
\* the links of the described robot, root first; consecutive links are
\* connected by one movable joint
RobotLinks == <<"world", "base_link", "tool0">>
CmdValues == {0, 1}

Configs ==
  [ robot_description : Opt(Descriptions),
    robot_base_link : Opt(BaseLinks),
    end_effector_link : Opt(TipLinks),
    target_frame_topic : Opt(Topics),
    joints : Opt(JointLists) ]

NONE == "none"

VARIABLES
  cfg,                    \* the parameter server's content (input)
  init_pc, init_result,   \* position in init(); "none" | "true" | "false" | "throw"
  robot_description, robot_model, robot_tree,      \* init()'s locals
  this,                   \* the members init() configures (read-only afterwards)
  m_positions, m_velocities, m_mutex,
  bg_pc, bg_i, joint_cmds,                 \* adapter thread
  outer_pc, outer_i, frame, fk_ret,        \* update()
  published,                               \* poses sent on m_pose_publisher
  ros_ok, running,                         \* ros::ok(); controller started
  \* history (not program state)
  pos_wid, write_log, last_completed,
  fk_q, fk_wids, lc_at_lock, pub_src,
  n_updates, n_locked, n_cycles, cyc_trace, pos_at_cycle_start,
  \* repeated init()
  parked,                 \* adapter threads of earlier init() calls, not scheduled now
  n_inits, prev_this      \* init() calls so far; the members as the last call found them

initLocals == <<robot_description, robot_model, robot_tree>>
initVars == <<init_pc, init_result, robot_description, robot_model, robot_tree, this>>
bufVars == <<m_positions, m_velocities, pos_wid>>
bgVars == <<bg_pc, bg_i, joint_cmds, n_cycles, cyc_trace, pos_at_cycle_start>>
bgHist == <<write_log, last_completed>>
outerVars == <<outer_pc, outer_i, frame, fk_ret, fk_q, fk_wids, lc_at_lock,
              n_updates, n_locked>>
pubVars == <<published, pub_src>>
envVars == <<ros_ok, running>>
runVars == <<bufVars, m_mutex, bgVars, bgHist, outerVars, pubVars, envVars>>
reinitVars == <<parked, n_inits, prev_this>>
vars == <<cfg, initVars, runVars, reinitVars>>

\* ------------------------------------------------------------- helpers
HasParam(key) == Len(cfg[key]) = 1
GetParam(key) == cfg[key][1]

Zero(n) == [i \in 1..n |-> 0]

IndexOf(seq, x) == CHOOSE i \in 1..Len(seq) : seq[i] = x
InSeq(seq, x) == \E i \in 1..Len(seq) : seq[i] = x
Abs(x) == IF x < 0 THEN -x ELSE x

\* urdf::Model::initString
initString(description) == description # "malformed"
\* kdl_parser::treeFromUrdfModel
treeFromUrdfModel(model) == model = "robot"
\* KDL::Tree::getChain: both links must be segments of the tree
getChainOk(tree, root, tip) == InSeq(tree, root) /\ InSeq(tree, tip)
getChain(tree, root, tip) ==
  [ root |-> root, tip |-> tip,
    nrOfJoints |-> Abs(IndexOf(tree, tip) - IndexOf(tree, root)) ]

\* hardware_interface::JointStateInterface::getHandle throws for a joint
\* the hardware does not register
HandleOk(name) == name \in HwJoints
\* the handles pushed by the loop of init() before getHandle throws (all of
\* them if it does not)
RECURSIVE PushedHandles(_)
PushedHandles(names) ==
  IF names = <<>> \/ ~HandleOk(Head(names)) THEN <<>>
  ELSE <<Head(names)>> \o PushedHandles(Tail(names))

\* KDL::ChainFkSolverPos_recursive::JntToCart on a chain of prismatic joints
\* along one axis: the position is the sum of the joint values read so far
Identity == [p |-> 0, M |-> <<0, 0, 0, 1>>]

\* what an adapter thread keeps to itself
ThreadLocals ==
  [ bg_pc |-> bg_pc, bg_i |-> bg_i, cyc_trace |-> cyc_trace,
    pos_at_cycle_start |-> pos_at_cycle_start ]

InitReturn(r) == init_pc' = "done" /\ init_result' = r

\* ------------------------------------------------------------------ Init
Init ==
  /\ cfg \in Configs
  /\ init_pc = "uninit" /\ init_result = NONE
  /\ robot_description = NONE /\ robot_model = NONE /\ robot_tree = <<>>
  /\ this = [ m_robot_base_link |-> "", m_end_effector_link |-> "",
              m_target_frame_topic |-> "", m_pose_publisher |-> NONE,
              m_robot_chain |-> [root |-> "", tip |-> "", nrOfJoints |-> 0],
              m_joint_names |-> <<>>, m_joint_state_handles |-> <<>>,
              m_controller_adapter |-> FALSE, m_controller_manager |-> FALSE,
              m_fk_solver |-> FALSE ]
  /\ m_positions = <<>> /\ m_velocities = <<>> /\ m_mutex = "free"
  /\ bg_pc = NONE /\ bg_i = 0 /\ joint_cmds = <<>>
  /\ outer_pc = "idle" /\ outer_i = 0 /\ frame = Identity /\ fk_ret = 0
  /\ published = <<>>
  /\ ros_ok = TRUE /\ running = FALSE
  /\ pos_wid = <<>> /\ write_log = <<>> /\ last_completed = 0
  /\ fk_q = <<>> /\ fk_wids = <<>> /\ lc_at_lock = 0 /\ pub_src = <<>>
  /\ n_updates = 0 /\ n_locked = 0 /\ n_cycles = 0 /\ cyc_trace = <<>>
  /\ pos_at_cycle_start = <<>>
  /\ parked = <<>> /\ n_inits = 1 /\ prev_this = this

\* ---------------------------------------------------------------- init()
\* lines 86-90
InitGetRobotDescription ==
  /\ init_pc = "uninit"
  /\ IF ~HasParam("robot_description")
       THEN InitReturn("false") /\ UNCHANGED robot_description
       ELSE /\ robot_description' = GetParam("robot_description")
            /\ init_pc' = "get_base_link" /\ UNCHANGED init_result
  /\ UNCHANGED <<cfg, reinitVars, robot_model, robot_tree, this, runVars>>

\* lines 91-95
InitGetBaseLink ==
  /\ init_pc = "get_base_link"
  /\ IF ~HasParam("robot_base_link")
       THEN InitReturn("false") /\ UNCHANGED this
       ELSE /\ this' = [this EXCEPT !.m_robot_base_link = GetParam("robot_base_link")]
            /\ init_pc' = "get_end_effector_link" /\ UNCHANGED init_result
  /\ UNCHANGED <<cfg, reinitVars, initLocals, runVars>>

\* lines 96-100
InitGetEndEffectorLink ==
  /\ init_pc = "get_end_effector_link"
  /\ IF ~HasParam("end_effector_link")
       THEN InitReturn("false") /\ UNCHANGED this
       ELSE /\ this' = [this EXCEPT !.m_end_effector_link = GetParam("end_effector_link")]
            /\ init_pc' = "get_target_frame_topic" /\ UNCHANGED init_result
  /\ UNCHANGED <<cfg, reinitVars, initLocals, runVars>>

\* Variant of InitGetTargetFrameTopic: the topic is treated like the
\* mandatory values
InitGetTargetFrameTopic_Required ==
  /\ init_pc = "get_target_frame_topic"
  /\ IF ~HasParam("target_frame_topic")
       THEN InitReturn("false") /\ UNCHANGED this
       ELSE /\ this' = [this EXCEPT
                          !.m_target_frame_topic = GetParam("target_frame_topic"),
                          !.m_pose_publisher = GetParam("target_frame_topic")]
            /\ init_pc' = "init_string" /\ UNCHANGED init_result
  /\ UNCHANGED <<cfg, reinitVars, initLocals, runVars>>

\* lines 101-112: the topic defaults to "target_frame"; the publisher is advertised
InitGetTargetFrameTopic ==
  /\ init_pc = "get_target_frame_topic"
  /\ LET topic == IF HasParam("target_frame_topic")
                    THEN GetParam("target_frame_topic") ELSE "target_frame"
     IN this' = [this EXCEPT !.m_target_frame_topic = topic,
                             !.m_pose_publisher = topic]
  /\ init_pc' = "init_string"
  /\ UNCHANGED <<cfg, reinitVars, init_result, initLocals, runVars>>

\* lines 115-119
InitParseUrdf ==
  /\ init_pc = "init_string"
  /\ IF ~initString(robot_description)
       THEN InitReturn("false") /\ UNCHANGED robot_model
       ELSE /\ robot_model' = robot_description
            /\ init_pc' = "tree_from_urdf" /\ UNCHANGED init_result
  /\ UNCHANGED <<cfg, reinitVars, robot_description, robot_tree, this, runVars>>

\* Variant of InitTreeFromUrdf: the failed conversion is reported by the
\* return value instead of an exception
InitTreeFromUrdf_ReturnsFalse ==
  /\ init_pc = "tree_from_urdf"
  /\ IF ~treeFromUrdfModel(robot_model)
       THEN InitReturn("false") /\ UNCHANGED robot_tree
       ELSE /\ robot_tree' = RobotLinks
            /\ init_pc' = "get_chain" /\ UNCHANGED init_result
  /\ UNCHANGED <<cfg, reinitVars, robot_description, robot_model, this, runVars>>

\* lines 120-126
InitTreeFromUrdf ==
  /\ init_pc = "tree_from_urdf"
  /\ IF ~treeFromUrdfModel(robot_model)
       THEN InitReturn("throw") /\ UNCHANGED robot_tree
       ELSE /\ robot_tree' = RobotLinks
            /\ init_pc' = "get_chain" /\ UNCHANGED init_result
  /\ UNCHANGED <<cfg, reinitVars, robot_description, robot_model, this, runVars>>

\* Variant of InitGetChain: the result of getChain is not tested
InitGetChain_Unchecked ==
  /\ init_pc = "get_chain"
  /\ IF ~getChainOk(robot_tree, this.m_robot_base_link, this.m_end_effector_link)
       THEN UNCHANGED this
       ELSE this' = [this EXCEPT !.m_robot_chain =
                       getChain(robot_tree, this.m_robot_base_link,
                                this.m_end_effector_link)]
  /\ init_pc' = "get_joints" /\ UNCHANGED init_result
  /\ UNCHANGED <<cfg, reinitVars, initLocals, runVars>>

\* lines 127-134
InitGetChain ==
  /\ init_pc = "get_chain"
  /\ IF ~getChainOk(robot_tree, this.m_robot_base_link, this.m_end_effector_link)
       THEN InitReturn("throw") /\ UNCHANGED this
       ELSE /\ this' = [this EXCEPT !.m_robot_chain =
                          getChain(robot_tree, this.m_robot_base_link,
                                   this.m_end_effector_link)]
            /\ init_pc' = "get_joints" /\ UNCHANGED init_result
  /\ UNCHANGED <<cfg, reinitVars, initLocals, runVars>>

\* Variant of InitGetJoints: a missing joints list is taken as an empty one
InitGetJoints_Optional ==
  /\ init_pc = "get_joints"
  /\ IF ~HasParam("joints")
       THEN UNCHANGED this
       ELSE this' = [this EXCEPT !.m_joint_names = GetParam("joints")]
  /\ init_pc' = "get_handles" /\ UNCHANGED init_result
  /\ UNCHANGED <<cfg, reinitVars, initLocals, runVars>>

\* lines 137-143
InitGetJoints ==
  /\ init_pc = "get_joints"
  /\ IF ~HasParam("joints")
       THEN InitReturn("throw") /\ UNCHANGED this
       ELSE /\ this' = [this EXCEPT !.m_joint_names = GetParam("joints")]
            /\ init_pc' = "get_handles" /\ UNCHANGED init_result
  /\ UNCHANGED <<cfg, reinitVars, initLocals, runVars>>

\* lines 146-149: getHandle throws out of init() for an unknown joint
InitGetHandles ==
  /\ init_pc = "get_handles"
  /\ LET pushed == PushedHandles(this.m_joint_names)
     IN /\ this' = [this EXCEPT !.m_joint_state_handles = @ \o pushed]
        /\ IF Len(pushed) < Len(this.m_joint_names)
             THEN InitReturn("throw")
             ELSE init_pc' = "adjust_buffers" /\ UNCHANGED init_result
  /\ UNCHANGED <<cfg, reinitVars, initLocals, runVars>>

\* Variant of InitBuffers: the buffers are sized by the chain's joints
InitBuffers_ChainSized ==
  /\ init_pc = "adjust_buffers"
  /\ m_positions' = Zero(this.m_robot_chain.nrOfJoints)
  /\ m_velocities' = Zero(this.m_robot_chain.nrOfJoints)
  /\ pos_wid' = Zero(this.m_robot_chain.nrOfJoints)
  /\ init_pc' = "make_adapter"
  /\ UNCHANGED <<cfg, reinitVars, init_result, initLocals, this, m_mutex,
                 bgVars, bgHist, outerVars, pubVars, envVars>>

\* lines 152-153
InitBuffers ==
  /\ init_pc = "adjust_buffers"
  /\ m_positions' = Zero(Len(this.m_joint_state_handles))
  /\ m_velocities' = Zero(Len(this.m_joint_state_handles))
  /\ pos_wid' = Zero(Len(this.m_joint_state_handles))
  /\ init_pc' = "make_adapter"
  /\ UNCHANGED <<cfg, reinitVars, init_result, initLocals, this, m_mutex, bgVars, bgHist,
                 outerVars, pubVars, envVars>>

\* lines 156-157
InitAdapter ==
  /\ init_pc = "make_adapter"
  /\ this' = [this EXCEPT !.m_controller_adapter = TRUE,
                          !.m_controller_manager = TRUE]
  /\ init_pc' = "start_thread"
  /\ UNCHANGED <<cfg, reinitVars, init_result, initLocals, runVars>>

\* lines 164-182: the adapter thread is created and detached
\* (a detached thread of an earlier init() call keeps running beside it)
InitThread ==
  /\ init_pc = "start_thread"
  /\ parked' = IF bg_pc \in {NONE, "exited"} THEN parked
                ELSE Append(parked, ThreadLocals)
  /\ bg_pc' = "loop_test" /\ bg_i' = 0
  /\ cyc_trace' = <<>> /\ pos_at_cycle_start' = <<>>
  /\ init_pc' = "make_fk_solver"
  /\ UNCHANGED <<cfg, n_inits, prev_this, init_result, initLocals, this,
                 bufVars, m_mutex, joint_cmds, n_cycles, bgHist, outerVars,
                 pubVars, envVars>>

\* Variant of InitFkSolver: a validation step placed after the thread start
InitFkSolver_Validates ==
  /\ init_pc = "make_fk_solver"
  /\ IF this.m_robot_chain.nrOfJoints # Len(this.m_joint_state_handles)
       THEN InitReturn("false") /\ UNCHANGED this
       ELSE this' = [this EXCEPT !.m_fk_solver = TRUE] /\ InitReturn("true")
  /\ UNCHANGED <<cfg, reinitVars, initLocals, runVars>>

\* lines 185-187
InitFkSolver ==
  /\ init_pc = "make_fk_solver"
  /\ this' = [this EXCEPT !.m_fk_solver = TRUE]
  /\ InitReturn("true")
  /\ UNCHANGED <<cfg, reinitVars, initLocals, runVars>>

InitStep ==
  \/ InitGetRobotDescription
  \/ InitGetBaseLink
  \/ InitGetEndEffectorLink
  \/ InitGetTargetFrameTopic
  \/ InitParseUrdf
  \/ InitTreeFromUrdf
  \/ InitGetChain
  \/ InitGetJoints
  \/ InitGetHandles
  \/ InitBuffers
  \/ InitAdapter
  \/ InitThread
  \/ InitFkSolver

\* lines 79-83: init() is called again on the same instance, with the same
\* parameter server content; its locals are fresh, the members are not
InitAgain ==
  /\ init_result = "true" /\ ~running /\ outer_pc = "idle"
  /\ n_inits < MaxInits
  /\ n_inits' = n_inits + 1 /\ prev_this' = this
  /\ init_pc' = "uninit" /\ init_result' = NONE
  /\ robot_description' = NONE /\ robot_model' = NONE /\ robot_tree' = <<>>
  /\ UNCHANGED <<cfg, parked, this, runVars>>

\* ------------------------------------------------- controller lifecycle
\* lines 190-192: starting() has an empty body; the controller manager that
\* calls it marks the controller running and calls update() only then
starting ==
  /\ init_result = "true" /\ ~running /\ outer_pc = "idle"
  /\ running' = TRUE
  /\ UNCHANGED <<cfg, reinitVars, initVars, bufVars, m_mutex, bgVars, bgHist, outerVars,
                 pubVars, ros_ok>>

\* Variant of stopping: the joint buffer is reset when the controller stops
stopping_ResetsBuffer ==
  /\ init_result = "true" /\ running /\ outer_pc = "idle"
  /\ running' = FALSE
  /\ m_positions' = Zero(Len(m_positions))
  /\ UNCHANGED <<cfg, reinitVars, initVars, m_velocities, pos_wid, m_mutex,
                 bgVars, bgHist, outerVars, pubVars, ros_ok>>

\* lines 194-196: stopping() has an empty body
stopping ==
  /\ init_result = "true" /\ running /\ outer_pc = "idle"
  /\ running' = FALSE
  /\ UNCHANGED <<cfg, reinitVars, initVars, bufVars, m_mutex, bgVars, bgHist, outerVars,
                 pubVars, ros_ok>>

\* line 169: ros::ok() turns false when the node shuts down
Shutdown ==
  /\ init_pc # "uninit" /\ ros_ok
  /\ ros_ok' = FALSE
  /\ UNCHANGED <<cfg, reinitVars, initVars, bufVars, m_mutex, bgVars, bgHist, outerVars,
                 pubVars, running>>

\* -------------------------------------------------------- adapter thread
Trace(step) == cyc_trace' = Append(cyc_trace, step)

\* Variant of BgLoopTest: the loop does not test ros::ok()
BgLoopTest_Forever ==
  /\ bg_pc = "loop_test"
  /\ n_cycles < MaxCycles
  /\ bg_pc' = "read" /\ n_cycles' = n_cycles + 1
  /\ cyc_trace' = <<>> /\ pos_at_cycle_start' = m_positions
  /\ UNCHANGED <<cfg, reinitVars, initVars, bufVars, m_mutex, bg_i, joint_cmds,
                 bgHist, outerVars, pubVars, envVars>>

\* line 169
BgLoopTest ==
  /\ bg_pc = "loop_test"
  /\ IF ros_ok
       THEN /\ n_cycles < MaxCycles
            /\ bg_pc' = "read" /\ n_cycles' = n_cycles + 1
            /\ cyc_trace' = <<>> /\ pos_at_cycle_start' = m_positions
       ELSE /\ bg_pc' = "exited"
            /\ UNCHANGED <<n_cycles, cyc_trace, pos_at_cycle_start>>
  /\ UNCHANGED <<cfg, reinitVars, initVars, bufVars, m_mutex, bg_i, joint_cmds, bgHist,
                 outerVars, pubVars, envVars>>

\* Variant of BgRead: the cycle goes from the read to the try_lock
BgRead_SkipsUpdate ==
  /\ bg_pc = "read"
  /\ bg_pc' = "try_lock" /\ Trace("read")
  /\ UNCHANGED <<cfg, reinitVars, initVars, bufVars, m_mutex, bg_i, joint_cmds,
                 n_cycles, pos_at_cycle_start, bgHist, outerVars, pubVars, envVars>>

\* line 171
BgRead ==
  /\ bg_pc = "read"
  /\ bg_pc' = "update" /\ Trace("read")
  /\ UNCHANGED <<cfg, reinitVars, initVars, bufVars, m_mutex, bg_i, joint_cmds, n_cycles,
                 pos_at_cycle_start, bgHist, outerVars, pubVars, envVars>>

\* line 172: the nested controllers compute new joint commands
BgUpdate ==
  /\ bg_pc = "update"
  /\ joint_cmds' \in [1..Len(this.m_joint_state_handles) -> CmdValues]
  /\ bg_pc' = "try_lock" /\ Trace("update")
  /\ UNCHANGED <<cfg, reinitVars, initVars, bufVars, m_mutex, bg_i, n_cycles,
                 pos_at_cycle_start, bgHist, outerVars, pubVars, envVars>>

\* Variant of BgTryLock: the mutex is taken whoever holds it
BgTryLock_Unchecked ==
  /\ bg_pc = "try_lock"
  /\ m_mutex' = "bg"
  /\ bg_pc' = "write" /\ bg_i' = 1 /\ Trace("try_lock")
  /\ write_log' = Append(write_log, joint_cmds)
  /\ UNCHANGED <<cfg, reinitVars, initVars, bufVars, joint_cmds, n_cycles,
                 pos_at_cycle_start, last_completed, outerVars, pubVars, envVars>>

\* Variant of BgTryLock: the write is not inside the if
BgTryLock_WriteAnyway ==
  /\ bg_pc = "try_lock"
  /\ IF m_mutex = "free"
       THEN m_mutex' = "bg" /\ Trace("try_lock")
       ELSE UNCHANGED m_mutex /\ Trace("try_lock_failed")
  /\ bg_pc' = "write" /\ bg_i' = 1
  /\ write_log' = Append(write_log, joint_cmds)
  /\ UNCHANGED <<cfg, reinitVars, initVars, bufVars, joint_cmds, n_cycles,
                 pos_at_cycle_start, last_completed, outerVars, pubVars, envVars>>

\* Variant of BgTryLock: lock() in place of try_lock()
BgTryLock_Blocking ==
  /\ bg_pc = "try_lock"
  /\ m_mutex = "free"
  /\ m_mutex' = "bg"
  /\ bg_pc' = "write" /\ bg_i' = 1 /\ Trace("try_lock")
  /\ write_log' = Append(write_log, joint_cmds)
  /\ UNCHANGED <<cfg, reinitVars, initVars, bufVars, joint_cmds, n_cycles,
                 pos_at_cycle_start, last_completed, outerVars, pubVars, envVars>>

\* line 173
BgTryLock ==
  /\ bg_pc = "try_lock"
  /\ IF m_mutex = "free"
       THEN /\ m_mutex' = "bg"
            /\ bg_pc' = "write" /\ bg_i' = 1 /\ Trace("try_lock")
            /\ write_log' = Append(write_log, joint_cmds)
       ELSE /\ bg_pc' = "sleep" /\ Trace("try_lock_failed")
            /\ UNCHANGED <<m_mutex, bg_i, write_log>>
  /\ UNCHANGED <<cfg, reinitVars, initVars, bufVars, joint_cmds, n_cycles,
                 pos_at_cycle_start, last_completed, outerVars, pubVars, envVars>>

\* line 175: JointControllerAdapter::write copies the commands into the
\* buffer, one joint after the other
BgWriteElem ==
  /\ bg_pc = "write" /\ bg_i <= Len(m_positions)
  /\ \E v \in (IF bg_i \in DOMAIN joint_cmds THEN {joint_cmds[bg_i]} ELSE CmdValues) :
       m_positions' = [m_positions EXCEPT ![bg_i] = v]
  /\ pos_wid' = [pos_wid EXCEPT ![bg_i] = Len(write_log)]
  /\ bg_i' = bg_i + 1
  /\ UNCHANGED <<cfg, reinitVars, initVars, m_velocities, m_mutex, bg_pc, joint_cmds,
                 n_cycles, cyc_trace, pos_at_cycle_start, bgHist, outerVars,
                 pubVars, envVars>>

\* Variant of BgUnlock: the thread leaves the if without unlocking
BgUnlock_Missing ==
  /\ bg_pc = "write" /\ bg_i > Len(m_positions)
  /\ last_completed' = Len(write_log)
  /\ bg_pc' = "sleep" /\ bg_i' = 0
  /\ cyc_trace' = cyc_trace \o <<"write", "unlock">>
  /\ UNCHANGED <<cfg, reinitVars, initVars, bufVars, m_mutex, joint_cmds,
                 n_cycles, pos_at_cycle_start, write_log, outerVars, pubVars,
                 envVars>>

\* line 176
BgUnlock ==
  /\ bg_pc = "write" /\ bg_i > Len(m_positions)
  /\ m_mutex' = "free"
  /\ last_completed' = Len(write_log)
  /\ bg_pc' = "sleep" /\ bg_i' = 0
  /\ cyc_trace' = cyc_trace \o <<"write", "unlock">>
  /\ UNCHANGED <<cfg, reinitVars, initVars, bufVars, joint_cmds, n_cycles,
                 pos_at_cycle_start, write_log, outerVars, pubVars, envVars>>

\* line 178
BgSleep ==
  /\ bg_pc = "sleep"
  /\ bg_pc' = "loop_test" /\ Trace("sleep")
  /\ UNCHANGED <<cfg, reinitVars, initVars, bufVars, m_mutex, bg_i, joint_cmds, n_cycles,
                 pos_at_cycle_start, bgHist, outerVars, pubVars, envVars>>

\* line 164: with more than one adapter thread alive, another one is scheduled
BgSwitch ==
  /\ \E k \in 1..Len(parked) :
       /\ parked' = [parked EXCEPT ![k] = ThreadLocals]
       /\ bg_pc' = parked[k].bg_pc /\ bg_i' = parked[k].bg_i
       /\ cyc_trace' = parked[k].cyc_trace
       /\ pos_at_cycle_start' = parked[k].pos_at_cycle_start
  /\ UNCHANGED <<cfg, n_inits, prev_this, initVars, bufVars, m_mutex,
                 joint_cmds, n_cycles, bgHist, outerVars, pubVars, envVars>>

BgStep ==
  \/ BgLoopTest
  \/ BgRead
  \/ BgUpdate
  \/ BgTryLock
  \/ BgWriteElem
  \/ BgUnlock
  \/ BgSleep

\* ---------------------------------------------------------------- update()
\* update()'s locals as they are when no call is in progress
NoCall ==
  /\ outer_pc' = "idle" /\ outer_i' = 0 /\ frame' = Identity /\ fk_ret' = 0
  /\ fk_q' = <<>> /\ fk_wids' = <<>> /\ lc_at_lock' = 0

\* Variant of UpdateTryLock: the result of try_lock is not tested
UpdateTryLock_Unchecked ==
  /\ init_result = "true" /\ running /\ outer_pc = "idle"
  /\ n_updates < MaxUpdates
  /\ n_updates' = n_updates + 1
  /\ IF m_mutex = "free"
       THEN m_mutex' = "outer" /\ n_locked' = n_locked + 1
       ELSE UNCHANGED <<m_mutex, n_locked>>
  /\ outer_pc' = "fk_check" /\ outer_i' = 1
  /\ lc_at_lock' = last_completed
  /\ UNCHANGED <<frame, fk_ret, fk_q, fk_wids>>
  /\ UNCHANGED <<cfg, reinitVars, initVars, bufVars, bgVars, bgHist, pubVars, envVars>>

\* lines 198-200: the call and its try_lock
UpdateTryLock ==
  /\ init_result = "true" /\ running /\ outer_pc = "idle"
  /\ n_updates < MaxUpdates
  /\ n_updates' = n_updates + 1
  /\ IF m_mutex = "free"
       THEN /\ m_mutex' = "outer"
            /\ n_locked' = n_locked + 1
            /\ outer_pc' = "fk_check" /\ outer_i' = 1
            /\ lc_at_lock' = last_completed
            /\ UNCHANGED <<frame, fk_ret, fk_q, fk_wids>>
       ELSE UNCHANGED <<m_mutex, n_locked, outer_pc, outer_i, frame, fk_ret,
                        fk_q, fk_wids, lc_at_lock>>
  /\ UNCHANGED <<cfg, reinitVars, initVars, bufVars, bgVars, bgHist, pubVars, envVars>>

\* line 204: JntToCart returns -1, leaving the frame untouched, when the
\* number of joint values differs from the chain's number of joints
UpdateFkCheck ==
  /\ outer_pc = "fk_check"
  /\ IF Len(m_positions) # this.m_robot_chain.nrOfJoints
       THEN fk_ret' = -1 /\ outer_pc' = "publish"
       ELSE /\ fk_ret' = 0
            /\ outer_pc' = IF this.m_robot_chain.nrOfJoints = 0
                             THEN "publish" ELSE "fk_read"
  /\ UNCHANGED <<cfg, reinitVars, initVars, bufVars, m_mutex, bgVars, bgHist, outer_i,
                 frame, fk_q, fk_wids, lc_at_lock, n_updates, n_locked, pubVars,
                 envVars>>

\* line 204: JntToCart reads the joint values segment by segment
UpdateFkRead ==
  /\ outer_pc = "fk_read"
  /\ frame' = [frame EXCEPT !.p = @ + m_positions[outer_i]]
  /\ fk_q' = Append(fk_q, m_positions[outer_i])
  /\ fk_wids' = Append(fk_wids, pos_wid[outer_i])
  /\ IF outer_i = this.m_robot_chain.nrOfJoints
       THEN outer_pc' = "publish" /\ UNCHANGED outer_i
       ELSE outer_i' = outer_i + 1 /\ UNCHANGED outer_pc
  /\ UNCHANGED <<cfg, reinitVars, initVars, bufVars, m_mutex, bgVars, bgHist, fk_ret,
                 lc_at_lock, n_updates, n_locked, pubVars, envVars>>

\* Variant of UpdatePublish: nothing is published when JntToCart reports an error
UpdatePublish_OnlyIfFkOk ==
  /\ outer_pc = "publish"
  /\ IF fk_ret < 0
       THEN UNCHANGED <<published, pub_src>>
       ELSE /\ published' = Append(published,
                  [ frame_id |-> this.m_robot_base_link,
                    position |-> frame.p, orientation |-> frame.M ])
            /\ pub_src' = Append(pub_src,
                  [q |-> fk_q, wids |-> fk_wids, ret |-> fk_ret])
  /\ outer_pc' = "unlock"
  /\ UNCHANGED <<cfg, reinitVars, initVars, bufVars, m_mutex, bgVars, bgHist, outer_i,
                 frame, fk_ret, fk_q, fk_wids, lc_at_lock, n_updates, n_locked,
                 envVars>>

\* Variant of UpdatePublish: the pose is labelled with the end-effector link
UpdatePublish_TipFrame ==
  /\ outer_pc = "publish"
  /\ published' = Append(published,
        [ frame_id |-> this.m_end_effector_link,
          position |-> frame.p, orientation |-> frame.M ])
  /\ pub_src' = Append(pub_src, [q |-> fk_q, wids |-> fk_wids, ret |-> fk_ret])
  /\ outer_pc' = "unlock"
  /\ UNCHANGED <<cfg, reinitVars, initVars, bufVars, m_mutex, bgVars, bgHist,
                 outer_i, frame, fk_ret, fk_q, fk_wids, lc_at_lock, n_updates,
                 n_locked, envVars>>

\* lines 207-218
UpdatePublish ==
  /\ outer_pc = "publish"
  /\ published' = Append(published,
        [ frame_id |-> this.m_robot_base_link,
          position |-> frame.p, orientation |-> frame.M ])
  /\ pub_src' = Append(pub_src, [q |-> fk_q, wids |-> fk_wids, ret |-> fk_ret])
  /\ outer_pc' = "unlock"
  /\ UNCHANGED <<cfg, reinitVars, initVars, bufVars, m_mutex, bgVars, bgHist, outer_i,
                 frame, fk_ret, fk_q, fk_wids, lc_at_lock, n_updates, n_locked,
                 envVars>>

\* Variant of UpdateUnlock: update() returns without unlocking
UpdateUnlock_Missing ==
  /\ outer_pc = "unlock"
  /\ NoCall
  /\ UNCHANGED <<cfg, reinitVars, initVars, bufVars, m_mutex, bgVars, bgHist,
                 n_updates, n_locked, pubVars, envVars>>

\* lines 219-221
UpdateUnlock ==
  /\ outer_pc = "unlock"
  /\ m_mutex' = "free"
  /\ NoCall
  /\ UNCHANGED <<cfg, reinitVars, initVars, bufVars, bgVars, bgHist, n_updates, n_locked,
                 pubVars, envVars>>

OuterInCall == outer_pc # "idle"

OuterStep ==
  \/ UpdateTryLock
  \/ UpdateFkCheck
  \/ UpdateFkRead
  \/ UpdatePublish
  \/ UpdateUnlock

Next ==
  \/ InitStep
  \/ starting
  \/ stopping
  \/ Shutdown
  \/ BgStep
  \/ OuterStep

Spec == Init /\ [][Next]_vars

\* the scheduler runs the adapter thread, and update() once called runs to
\* its return
FairSpec == Spec /\ WF_vars(BgStep) /\ WF_vars(OuterInCall /\ OuterStep)

\* init() is repeated on an instance that has not been started, with a valid
\* one-joint configuration
ReinitConfigs ==
  { c \in Configs :
      /\ c.robot_description = <<"robot">>
      /\ c.robot_base_link \in {<<"world">>, <<"base_link">>}
      /\ c.end_effector_link = <<"tool0">>
      /\ c.joints = << <<"joint1">> >> }

InitReinit == Init /\ cfg \in ReinitConfigs

NextReinit ==
  \/ InitStep
  \/ InitAgain
  \/ Shutdown
  \/ BgStep
  \/ BgSwitch

SpecReinit == InitReinit /\ [][NextReinit]_vars

\* =========================================================== properties
MutexHeldByOuter == outer_pc \in {"fk_check", "fk_read", "publish", "unlock"}
ReadInProgress == outer_pc \in {"fk_check", "fk_read"}
WriteInProgress == bg_pc = "write"

\* the vector stored by write number w; write 0 is the zeroing of init()
VectorOf(w) == IF w = 0 THEN Zero(Len(m_positions)) ELSE write_log[w]
\* the joint values a pose was computed from all come from one write, and
\* are that write's whole vector
FromOneWrite(src) ==
  \E w \in 0..Len(write_log) :
    /\ \A i \in 1..Len(src.wids) : src.wids[i] = w
    /\ src.q = VectorOf(w)

\* C1: the adapter thread's write of m_positions and update()'s read of it
\* are never both in progress; each happens only while its own context holds
\* m_mutex; every joint vector used for a published pose is the all-zero
\* vector of init() or the complete result of exactly one write.
C1_ExclusiveAccess ==
  /\ ~(WriteInProgress /\ ReadInProgress)
  /\ (WriteInProgress => m_mutex = "bg")
  /\ (MutexHeldByOuter => m_mutex = "outer")
  /\ \A k \in 1..Len(pub_src) : pub_src[k].ret = 0 => FromOneWrite(pub_src[k])

\* a pose computed from a complete two-joint write was published, and the
\* next write is in progress
C1_Witness ==
  /\ WriteInProgress /\ bg_i = 2
  /\ \E k \in 1..Len(pub_src) :
       /\ pub_src[k].ret = 0 /\ Len(pub_src[k].q) = 2
       /\ pub_src[k].wids = <<1, 1>>

\* steps left until update() returns / until the adapter thread's cycle
\* reaches its sleep step
OuterRank ==
  CASE outer_pc = "fk_check" -> this.m_robot_chain.nrOfJoints + 3
    [] outer_pc = "fk_read" -> this.m_robot_chain.nrOfJoints - outer_i + 3
    [] outer_pc = "publish" -> 2
    [] outer_pc = "unlock" -> 1
    [] OTHER -> 0
BgRank ==
  CASE bg_pc = "read" -> Len(m_positions) + 4
    [] bg_pc = "update" -> Len(m_positions) + 3
    [] bg_pc = "try_lock" -> Len(m_positions) + 2
    [] bg_pc = "write" -> Len(m_positions) - bg_i + 2
    [] OTHER -> 0
BgInCycle == bg_pc \in {"read", "update", "try_lock", "write"}

\* C2: neither context waits for the mutex: whenever update() has been
\* started and has not returned, its next step can be taken whatever the
\* adapter thread does, and every such step brings it closer to returning;
\* the same holds for the adapter thread's cycle up to its sleep step.
C2_NeverBlocked ==
  /\ [](OuterInCall => ENABLED OuterStep)
  /\ [](BgInCycle => ENABLED BgStep)
  /\ [][OuterStep /\ OuterInCall => OuterRank' < OuterRank]_vars
  /\ [][BgStep /\ BgInCycle => BgRank' < BgRank]_vars

\* each context met the mutex held by the other: an update() returned without
\* the lock, and the adapter thread is at its try_lock while update() holds it
C2_Witness ==
  /\ n_updates > n_locked
  /\ bg_pc = "try_lock" /\ m_mutex = "outer"

\* a step of update() that finds the mutex taken
UpdateLockFails == n_updates' = n_updates + 1 /\ m_mutex # "free"

\* C3: an update() call whose try_lock fails publishes no pose and changes
\* no state (the count of calls is the observer's); the number of poses
\* published never exceeds the number of update() calls.
C3_SkipOnContention ==
  /\ [][UpdateLockFails =>
          UNCHANGED <<cfg, reinitVars, initVars, bufVars, m_mutex, bgVars, bgHist, pubVars,
                      envVars, outer_pc, outer_i, frame, fk_ret, n_locked>>]_vars
  /\ [](Len(published) <= n_updates)

\* update() was called while the adapter thread held the mutex, returned,
\* and nothing was published
C3_Witness ==
  /\ n_updates = 1 /\ n_locked = 0 /\ outer_pc = "idle"
  /\ m_mutex = "bg" /\ published = <<>>

\* C4: when the adapter thread's try_lock fails in a cycle, the cycle makes
\* no write and no second attempt and goes on to the sleep step: the buffer
\* is what it was when the cycle began.
C4_FailedCycleLeavesBuffer ==
  InSeq(cyc_trace, "try_lock_failed") =>
    /\ m_positions = pos_at_cycle_start
    /\ m_velocities = Zero(Len(m_positions))
    /\ ~InSeq(cyc_trace, "write") /\ ~InSeq(cyc_trace, "try_lock")
    /\ bg_pc \in {"sleep", "loop_test", "exited"}
    /\ m_mutex # "bg"

\* a cycle that follows a completed write failed to take the mutex and reached its
\* sleep step
C4_Witness ==
  /\ bg_pc = "loop_test" /\ cyc_trace = <<"read", "update", "try_lock_failed", "sleep">>
  /\ last_completed = 1 /\ joint_cmds # m_positions

\* C5: every update() call that takes the mutex publishes exactly one pose,
\* whatever JntToCart returns: the number of published poses is the number
\* of calls that took the mutex, less the call that has not published yet.
C5_OnePosePerLockedUpdate ==
  Len(published) =
    n_locked - (IF outer_pc \in {"fk_check", "fk_read", "publish"} THEN 1 ELSE 0)

\* two calls took the mutex and returned; JntToCart had reported an error
C5_Witness ==
  /\ outer_pc = "idle" /\ n_locked = 2 /\ Len(published) = 2
  /\ pub_src[1].ret = -1

\* C6: the joint vector update() feeds to forward kinematics is the one
\* stored by the last write completed before its try_lock succeeded, or the
\* all-zero vector if there is none.
C6_ReadsLatestCompletedWrite ==
  /\ outer_pc = "fk_read" =>
       \A i \in 1..Len(fk_q) : fk_q[i] = VectorOf(lc_at_lock)[i]
  /\ (outer_pc \in {"publish", "unlock"} /\ fk_ret = 0) =>
       fk_q = VectorOf(lc_at_lock)

\* update() read the vector of the second write, which differs from the first
C6_Witness ==
  /\ outer_pc = "publish" /\ fk_ret = 0 /\ lc_at_lock = 2
  /\ Len(fk_q) = 2 /\ fk_q = write_log[2] /\ write_log[1] # write_log[2]

\* ------------------------------------------------------ init() outcomes
Mandatory == {"robot_description", "robot_base_link", "end_effector_link", "joints"}
InitFailed == init_result \in {"false", "throw"}
Ready == init_result = "true"
Present(keys) == \A key \in keys : HasParam(key)

\* C7: init() fails, and never returns true, whenever one of the robot
\* description, robot_base_link, end_effector_link or joints is absent,
\* whatever the other parameters are.
C7_MandatoryParams ==
  (\E key \in Mandatory : ~HasParam(key)) =>
    /\ ~Ready /\ ~running
    /\ (init_pc = "done" => InitFailed)

\* init() ended by the exception of the joints lookup: joints is the one
\* absent value, and the robot and the chain are valid
C7_Witness ==
  /\ init_pc = "done" /\ init_result = "throw"
  /\ ~HasParam("joints") /\ Present(Mandatory \ {"joints"})
  /\ this.m_robot_chain.nrOfJoints > 0

\* the configured pair of links is not a chain of the described robot
NoChain ==
  /\ Present({"robot_base_link", "end_effector_link"})
  /\ ~getChainOk(RobotLinks, GetParam("robot_base_link"),
                 GetParam("end_effector_link"))

\* C8: init() fails and never reaches the ready state when the configured
\* base link and end-effector link do not form a chain of the parsed tree,
\* even if every configuration value is present.
C8_InvalidChain ==
  NoChain =>
    /\ ~Ready /\ ~running
    /\ (init_pc = "done" => InitFailed)

\* every value is present and the robot is parsed, the tip link is a link
\* of the tree and the base link is not: init() has ended by the exception
C8_Witness ==
  /\ Present(Mandatory \cup {"target_frame_topic"})
  /\ robot_tree = RobotLinks
  /\ this.m_robot_base_link = "no_such_link" /\ this.m_end_effector_link = "tool0"
  /\ init_pc = "done" /\ init_result = "throw"

\* init() got as far as the robot description, which it cannot parse (as
\* urdf, or into a tree), or it cannot resolve the chain
ReachesParse ==
  Present({"robot_description", "robot_base_link", "end_effector_link"})
UrdfFails == ReachesParse /\ ~initString(GetParam("robot_description"))
TreeFails ==
  /\ ReachesParse /\ initString(GetParam("robot_description"))
  /\ ~treeFromUrdfModel(GetParam("robot_description"))
ChainFails ==
  /\ ReachesParse /\ treeFromUrdfModel(GetParam("robot_description"))
  /\ NoChain

\* C9 as stated: a robot description that cannot be parsed and a chain that
\* cannot be resolved both end init() with an exception, never with the
\* return value false.
C9_AllFatal ==
  (init_pc = "done" /\ (UrdfFails \/ TreeFails \/ ChainFails)) =>
    init_result = "throw"

\* C9 as the code has it: a description that is not valid urdf ends init()
\* with the return value false; a urdf model that cannot be converted to a
\* tree and a chain that cannot be resolved end it with an exception.
C9_ParseOutcomes ==
  init_pc = "done" =>
    /\ (UrdfFails => init_result = "false")
    /\ (TreeFails => init_result = "throw")
    /\ (ChainFails => init_result = "throw")

\* the urdf model was parsed, its conversion to a tree failed and init()
\* ended by the exception
C9_Witness ==
  /\ init_pc = "done" /\ TreeFails /\ init_result = "throw"
  /\ robot_model = "untreeable" /\ robot_tree = <<>>

\* C10: the adapter thread exists only after a successful init(): when
\* init() has failed no thread was started, the buffer is never written and
\* no pose is published, and a failed init() stays failed.
C10_NoThreadAfterFailedInit ==
  /\ [](InitFailed =>
          /\ bg_pc = NONE /\ write_log = <<>> /\ m_positions = <<>>
          /\ m_mutex = "free" /\ published = <<>> /\ n_updates = 0
          /\ ~running)
  /\ [][InitFailed => init_result' = init_result /\ init_pc' = "done"]_vars

\* init() failed at its last validation step (an unknown joint), after the
\* node was shut down
C10_Witness ==
  /\ init_pc = "done" /\ init_result = "throw"
  /\ Len(this.m_joint_state_handles) < Len(this.m_joint_names)
  /\ ~ros_ok

\* every mandatory value is present, the robot is parsed, the links form a
\* chain and the hardware has every joint
ValidMandatory ==
  /\ Present(Mandatory)
  /\ treeFromUrdfModel(GetParam("robot_description"))
  /\ ~NoChain
  /\ \A i \in 1..Len(GetParam("joints")) : HandleOk(GetParam("joints")[i])

\* C11: the output topic is optional: with valid mandatory values init()
\* succeeds whether target_frame_topic is present or not; the topic used is
\* the configured one when present and "target_frame" when absent.
C11_TopicOptional ==
  /\ (init_pc = "done" /\ ValidMandatory) => Ready
  /\ this.m_pose_publisher # NONE =>
       /\ this.m_pose_publisher = this.m_target_frame_topic
       /\ this.m_target_frame_topic =
            (IF HasParam("target_frame_topic")
               THEN GetParam("target_frame_topic") ELSE "target_frame")

\* init() returned true without a configured topic, on the default one
C11_Witness ==
  /\ Ready /\ ~HasParam("target_frame_topic")
  /\ this.m_pose_publisher = "target_frame"

\* C12 as stated: a second init() with the same valid configuration leaves
\* the chain, the list of joint handles and the topic as the first init()
\* left them, with one handle per configured joint name.
C12_ReinitIdempotent ==
  (n_inits >= 2 /\ Ready) =>
    /\ this.m_robot_chain = prev_this.m_robot_chain
    /\ this.m_target_frame_topic = prev_this.m_target_frame_topic
    /\ this.m_joint_state_handles = prev_this.m_joint_state_handles
    /\ Len(this.m_joint_state_handles) = Len(this.m_joint_names)

\* a step of starting() or stopping(), seen by what the controller manager
\* records of it
LifecycleStep == running' # running
\* the adapter thread has a next step to take in its loop
BgHasWork ==
  \/ BgInCycle
  \/ bg_pc = "sleep"
  \/ (bg_pc = "loop_test" /\ (~ros_ok \/ n_cycles < MaxCycles))

\* C13: starting() and stopping() leave the joint buffer, the mutex, the
\* chain, the publisher and the adapter thread as they are, in any order
\* and number of calls; the adapter thread goes on cycling while the
\* controller is stopped.
C13_StartStopNoOps ==
  /\ [][LifecycleStep =>
          UNCHANGED <<cfg, reinitVars, initVars, bufVars, m_mutex, bgVars,
                      bgHist, outerVars, pubVars, ros_ok>>]_vars
  /\ []((Ready /\ ~running /\ BgHasWork) => ENABLED BgStep)

\* the controller was started, published and was stopped; the adapter thread
\* is in the write of its second cycle
C13_Witness ==
  /\ Ready /\ ~running /\ Len(published) = 1 /\ n_updates = 1
  /\ bg_pc = "write" /\ bg_i = 2 /\ Len(write_log) = 2 /\ m_positions # Zero(Len(m_positions))

\* C14: every published pose carries the base-link name configured at
\* init() as its frame id, whatever the joint vector; the name is not
\* modified once init() has read it.
C14_FrameIdIsBaseLink ==
  /\ \A k \in 1..Len(published) :
       published[k].frame_id = GetParam("robot_base_link")
  /\ (Ready \/ this.m_robot_base_link # "") =>
       this.m_robot_base_link = GetParam("robot_base_link")

\* two poses computed from different joint vectors carry the frame id
\* "base_link"
C14_Witness ==
  /\ Len(published) = 2
  /\ published[1].frame_id = "base_link" /\ published[2].frame_id = "base_link"
  /\ pub_src[1].ret = 0 /\ pub_src[2].ret = 0 /\ pub_src[1].q # pub_src[2].q

\* C15: the adapter thread leaves its loop only at a loop test that finds
\* ros::ok() false, never on stopping() or on a failed try_lock; once the
\* node is shut down no further cycle begins and, scheduled fairly, the
\* thread ends.
C15_ExitsOnlyOnShutdown ==
  /\ [](bg_pc = "exited" => ~ros_ok)
  /\ [][(bg_pc # "exited" /\ bg_pc' = "exited") =>
          (bg_pc = "loop_test" /\ ~ros_ok)]_vars
  /\ [][~ros_ok => (~ros_ok' /\ n_cycles' = n_cycles)]_vars
  /\ ((~ros_ok /\ bg_pc # NONE) ~> bg_pc = "exited")

\* the node was shut down during a cycle that wrote the buffer; the thread
\* finished that cycle and ended, the controller still running
C15_Witness ==
  /\ bg_pc = "exited" /\ running /\ n_cycles = 1
  /\ cyc_trace = <<"read", "update", "try_lock", "write", "unlock", "sleep">>

WritingCycle == <<"read", "update", "try_lock", "write", "unlock", "sleep">>
SkippingCycle == <<"read", "update", "try_lock_failed", "sleep">>
IsPrefix(a, b) == Len(a) <= Len(b) /\ SubSeq(b, 1, Len(a)) = a

\* C16: each cycle of the adapter thread reads the hardware, advances the
\* controller manager once, attempts the write once and sleeps, in this
\* order; the buffer is written only after that cycle's manager update.
C16_CycleOrder ==
  /\ IsPrefix(cyc_trace, WritingCycle) \/ IsPrefix(cyc_trace, SkippingCycle)
  /\ (bg_pc = "read" => cyc_trace = <<>>)
  /\ (bg_pc = "update" => cyc_trace = <<"read">>)
  /\ (bg_pc = "try_lock" => cyc_trace = <<"read", "update">>)
  /\ (bg_pc = "write" => cyc_trace = <<"read", "update", "try_lock">>)
  /\ (bg_pc = "sleep" =>
        cyc_trace \in {SubSeq(WritingCycle, 1, 5), SubSeq(SkippingCycle, 1, 3)})
  /\ (bg_pc = "loop_test" /\ n_cycles > 0 =>
        cyc_trace \in {WritingCycle, SkippingCycle})
  /\ (n_cycles > 0 /\ m_positions # pos_at_cycle_start) =>
        IsPrefix(<<"read", "update", "try_lock">>, cyc_trace)

\* the second cycle changed the buffer and is at its sleep step
C16_Witness ==
  /\ bg_pc = "sleep" /\ n_cycles = 2
  /\ cyc_trace = <<"read", "update", "try_lock", "write", "unlock">>
  /\ m_positions # pos_at_cycle_start

BuffersAdjusted ==
  Ready \/ init_pc \in {"make_adapter", "start_thread", "make_fk_solver"}

\* C17: from the adjustment of the buffers in a successful init() onward,
\* the position buffer and the velocity buffer have as many elements as
\* there are configured joint names; update() calls and cycles of the
\* adapter thread do not change that.
C17_BufferLength ==
  BuffersAdjusted =>
    /\ Len(m_positions) = Len(GetParam("joints"))
    /\ Len(m_velocities) = Len(GetParam("joints"))
    /\ Len(this.m_joint_names) = Len(GetParam("joints"))

\* two writes of the adapter thread and two published poses later, with two
\* joints
C17_Witness ==
  /\ Ready /\ Len(m_positions) = 2 /\ last_completed = 2 /\ Len(published) = 2

BgOutsideWrite ==
  bg_pc \in {NONE, "loop_test", "read", "update", "try_lock", "sleep", "exited"}

\* C18: the mutex is not held across ticks: it is released by the context
\* that took it, within the same update() call or the same cycle; when
\* update() has returned the outer context does not hold it, outside its
\* write step the adapter thread does not hold it, and it is never held for
\* ever.
C18_MutexNotHeldAcrossTicks ==
  /\ [](outer_pc = "idle" => m_mutex # "outer")
  /\ [](BgOutsideWrite => m_mutex # "bg")
  /\ [][(m_mutex = "outer" /\ m_mutex' # "outer") =>
          (outer_pc = "unlock" /\ outer_pc' = "idle" /\ m_mutex' = "free")]_vars
  /\ [][(m_mutex = "bg" /\ m_mutex' # "bg") =>
          (bg_pc = "write" /\ bg_pc' = "sleep" /\ m_mutex' = "free")]_vars
  /\ (m_mutex # "free" ~> m_mutex = "free")

\* each context has taken and released the mutex, twice
C18_Witness ==
  /\ m_mutex = "free" /\ outer_pc = "idle" /\ bg_pc = "loop_test"
  /\ n_locked = 2 /\ last_completed = 2

\* an update() call that returns without the mutex; a cycle whose try_lock
\* fails
UpdateFailsStep == n_updates' = n_updates + 1 /\ n_locked' = n_locked
BgFailsStep == bg_pc = "try_lock" /\ bg_pc' = "sleep"

\* C19: a try_lock fails only while the other context is inside its
\* critical section: the mutex is free exactly when neither context is in
\* its critical section, so that a cycle whose try_lock comes while no
\* update() call is in progress writes the buffer, and an update() called
\* while the adapter thread is outside its write step goes on to publish.
C19_FailsOnlyUnderContention ==
  /\ [](m_mutex = "free" <=> (~WriteInProgress /\ ~MutexHeldByOuter))
  /\ [][UpdateFailsStep => WriteInProgress]_vars
  /\ [][BgFailsStep => MutexHeldByOuter]_vars
  /\ [][(bg_pc = "try_lock" /\ bg_pc' # bg_pc /\ ~OuterInCall) =>
          (bg_pc' = "write" /\ m_mutex' = "bg")]_vars
  /\ [][(n_updates' = n_updates + 1 /\ ~WriteInProgress) =>
          (outer_pc' = "fk_check" /\ m_mutex' = "outer")]_vars

\* each context has failed once: an update() returned without the mutex,
\* and the current cycle's try_lock met update() holding it
C19_Witness ==
  /\ n_updates = 2 /\ n_locked = 1 /\ MutexHeldByOuter
  /\ bg_pc = "sleep" /\ InSeq(cyc_trace, "try_lock_failed")
====
